---- MODULE Spec2Model ----
(***************************************************************************)
(* Model of py_n3ds_capture.py: the N3DSCaptureCard session fields, the    *)
(* open/close operations, one acquisition attempt and the process_frames   *)
(* loop.  The USB library (pyusb) is the environment: the outcome of every *)
(* call the code makes into it is an input of the action making the call.  *)
(***************************************************************************)
EXTENDS Integers, Sequences, FiniteSets, TLC

(* ---- bounds of the model ---------------------------------------------- *)
MaxFrames == 3          \* frame_count is counted up to here
MaxOpens  == 3          \* device handles handed out by usb.core.find
MaxAux    == 2200       \* auxiliary (audio) byte counts 0..MaxAux
MaxTicks  == 8          \* the clock's last tick
MaxStart  == 4          \* the latest tick at which process_frames starts
MaxFpsFrames == 121     \* frames counted against the clock

(* ---- program constants ------------------------------------------------- *)
CAPTURE_INTERFACE == 0
AUDIO_SAMPLE_SIZE == 2188
FRAME_WIDTH       == 240
FRAME_HEIGHT      == 720
IMAGE_SIZE        == FRAME_WIDTH * FRAME_HEIGHT * 3
FRAME_SIZE        == IMAGE_SIZE + AUDIO_SAMPLE_SIZE

(* x & ~m for x, m >= 0, bit by bit *)
RECURSIVE AndNot(_, _)
AndNot(x, m) ==
    IF x = 0 THEN 0
    ELSE (IF x % 2 = 1 /\ m % 2 = 0 THEN 1 ELSE 0)
         + 2 * AndNot(x \div 2, m \div 2)

(* variant of TransferSize: the addition of 0x1ff left out *)
TransferSizeTruncating(n) == AndNot(n, 511)

(* transfer_size = (n + 0x1ff) & ~0x1ff for a frame of n bytes *)
TransferSize(n) == AndNot(n + 511, 511)

TRANSFER_SIZE     == TransferSize(FRAME_SIZE)

N3DS_DISPLAY1_WIDTH == 400
N3DS_DISPLAY2_WIDTH == 320
N3DS_DISPLAY_HEIGHT == FRAME_WIDTH
DISPLAY2_X          == (N3DS_DISPLAY1_WIDTH - N3DS_DISPLAY2_WIDTH) \div 2
NDS_DISPLAY_WIDTH   == 256
NDS_DISPLAY_HEIGHT  == 192

(* the display scales 1.0, 1.5 and 2.0 of the keys 1/0, 2 and 3, counted   *)
(* in halves                                                               *)
SCALE_1   == 2
SCALE_1_5 == 3
SCALE_2   == 4

(* c * scale for a scale in halves.  Every length the code scales is even, *)
(* so the float product is a whole number and int() cuts nothing off.      *)
Scaled(c, scale) == (c * scale) \div 2

(* time.time() is counted in ticks of half a second; the title is        *)
(* refreshed every 2.0 seconds                                             *)
TICKS_PER_SECOND == 2
FPS_UPDATE_TICKS == 2 * TICKS_PER_SECOND

VOLUME_STEP == 5
VOLUME_MAX  == 100

(* CaptureResult, plus the case in which _grab_frame returns no value      *)
(* because a usb.core.USBError leaves it.                                  *)
OK    == "OK"
SKIP  == "SKIP"
ERROR == "ERROR"
RAISED == "USBError"
NoResult == "none"
CaptureResult == {OK, SKIP, ERROR}

(* self.device: 0 is None, k > 0 is the k-th handle returned by find.      *)
None == 0
(* self.interface: NoIface is None, otherwise the interface object of      *)
(* device dev, at position idx of configuration cfg.                       *)
NoIface == [dev |-> 0, cfg |-> 0, idx |-> 0]

(* ---- the environment's answers ----------------------------------------- *)
FindOutcomes  == {"found", "absent", "error"}
CfgOutcomes   == {"ok", "timeout", "error"}
ClaimOutcomes == {"ok", "error"}
ArmOutcomes   == {"ok", "neg", "timeout", "error"}
ReadOutcomes  == {"ok", "timeout", "error"}
RelOutcomes   == {"ok", "error"}
(* lengths a bulk read into self.transferred can return *)
ReadLengths   == {0, FRAME_SIZE - 1, FRAME_SIZE, TRANSFER_SIZE}
(* descriptors of the attached device: configurations, each the sequence   *)
(* of the bInterfaceNumber of its interfaces.                              *)
Descriptors == { << <<0>> >>,
                 << <<1>> >>,
                 << <<1, 0>> >>,
                 << <<0>>, <<0>> >>,
                 << <<1>>, <<1, 0>> >> }
HealthyDescriptor == << <<0>> >>

VARIABLES
    device,        \* self.device
    interface,     \* self.interface
    frame_count,   \* self.frame_count
    pc,            \* position of run()/process_frames
    handles,       \* number of handles usb.core.find has returned
    usb,           \* what the USB library was asked for the current handle
    initOk,        \* the last device_init returned True and no close since
    att,           \* what the current loop iteration did
    okCount,       \* number of attempts that returned CaptureResult.OK
    healthy,       \* the device is present and every USB call succeeds
    transferred,   \* self.transferred: its length and the two slices taken
    geometry,      \* is_nds_crop, display_scale and the fields derived
    n3ds_capture_audio,  \* volume, is_muted and the channel's volume
    last_key,      \* the key of the last KEYDOWN event handled
    timer          \* time.time(), start_time, last_fps_update_time, the title

loopVars == <<device, interface, pc, handles, usb, initOk, att, okCount,
              healthy>>

keyVars == <<geometry, n3ds_capture_audio, last_key>>

vars == <<loopVars, frame_count, transferred, keyVars, timer>>

(* what the loop's steps on the session leave alone *)
aside == <<transferred, keyVars, timer>>

NoUsb == [claims |-> 0, releases |-> 0, disposes |-> 0]

(* the record of one loop iteration: prev is the result of the iteration   *)
(* before it, opened/openRet the call of device_init and what it returned, *)
(* streaming whether the attempt started in a session device_init opened,  *)
(* closes the calls of close_capture made for the attempt, openIn what the *)
(* USB library answered to device_init (kept until the attempt is made).   *)
NoAtt == [prev |-> NoResult, opened |-> FALSE, openRet |-> FALSE,
          streaming |-> FALSE, heldBefore |-> FALSE,
          result |-> NoResult, armIssued |-> FALSE, armOut |-> "ok",
          readIssued |-> FALSE, readOut |-> "ok", readLen |-> 0,
          forwarded |-> FALSE, reported |-> FALSE, closes |-> 0,
          quitSeen |-> FALSE, openIn |-> <<>>]

(* ---- device_init ------------------------------------------------------- *)
Iface(d, c, i) == [dev |-> d, cfg |-> c, idx |-> i]

(* the inner loop "for iface in cfg" from position i on: a match is stored *)
(* in self.interface, and the loop breaks as soon as self.interface is set *)
RECURSIVE ScanInterfaces(_, _, _, _, _)
ScanInterfaces(d, desc, c, i, cur) ==
    IF i > Len(desc[c]) THEN cur
    ELSE LET cur2 == IF desc[c][i] = CAPTURE_INTERFACE
                     THEN Iface(d, c, i) ELSE cur
         IN  IF cur2 # NoIface THEN cur2
             ELSE ScanInterfaces(d, desc, c, i + 1, cur2)

(* the outer loop "for cfg in self.device" from configuration c on; the    *)
(* break of the inner loop does not leave it                               *)
RECURSIVE ScanConfigurations(_, _, _, _)
ScanConfigurations(d, desc, c, cur) ==
    IF c > Len(desc) THEN cur
    ELSE ScanConfigurations(d, desc, c + 1, ScanInterfaces(d, desc, c, 1, cur))

(* variant of InitArmReturn: True also when the vendor command raised *)
InitArmReturnAlways(armOut) == TRUE

(* the value of "return True" at the end of device_init: reached when the  *)
(* vendor command did not raise; the number it returns is not looked at    *)
InitArmReturn(armOut) == armOut \in {"ok", "neg"}

(* device_init: s is the session before the call.  The result carries the  *)
(* session after the call and the returned bool.                           *)
DeviceInit(s, h, findOut, desc, cfgOut, claimOut, armOut) ==
    IF findOut = "error"
    THEN [s |-> s, handles |-> h, ret |-> FALSE]
    ELSE IF findOut = "absent"
    THEN [s |-> [s EXCEPT !.device = None], handles |-> h, ret |-> FALSE]
    ELSE
      LET d  == h + 1
          s1 == [device |-> d, interface |-> s.interface, usb |-> NoUsb]
          s2 == [s1 EXCEPT !.interface =
                                ScanConfigurations(d, desc, 1, s1.interface)]
          s3 == [s2 EXCEPT !.usb.claims = 1]
      IN  IF cfgOut # "ok"
          THEN [s |-> s1, handles |-> d, ret |-> FALSE]
          ELSE IF s2.interface = NoIface
          THEN [s |-> s2, handles |-> d, ret |-> FALSE]
          ELSE IF claimOut # "ok"
          THEN [s |-> s2, handles |-> d, ret |-> FALSE]
          ELSE [s |-> s3, handles |-> d, ret |-> InitArmReturn(armOut)]

(* ---- close_capture ----------------------------------------------------- *)
(* variant of Disposed: "self.device = None" left out *)
DisposedKeepsHandle(s) ==
    [device |-> s.device, interface |-> NoIface,
     usb |-> [s.usb EXCEPT !.disposes = @ + 1]]

(* variant of Disposed: "self.interface = None" left out *)
DisposedKeepsInterface(s) ==
    [device |-> None, interface |-> s.interface,
     usb |-> [s.usb EXCEPT !.disposes = @ + 1]]

(* the fields after the "if self.device:" block ran to its end             *)
Disposed(s) ==
    [device |-> None, interface |-> NoIface,
     usb |-> [s.usb EXCEPT !.disposes = @ + 1]]

(* usb.util.release_interface raises USBError: relOut is the answer of the *)
(* device, which is asked only while the handle has the interface claimed  *)
(* (claimed in device_init and no release_interface call made since).      *)
ReleaseRaises(s, relOut) ==
    relOut = "error" /\ s.usb.releases < s.usb.claims

(* close_capture: relOut is what usb.util.release_interface does when it   *)
(* is called.  raised: a USBError leaves close_capture.                    *)
CloseCapture(s, relOut) ==
    IF s.device # None
    THEN IF s.interface # NoIface
         THEN LET r == [s EXCEPT !.usb.releases = @ + 1]
              IN  IF ReleaseRaises(s, relOut)
                  THEN [s |-> r, raised |-> TRUE]
                  ELSE [s |-> Disposed(r), raised |-> FALSE]
         ELSE [s |-> Disposed(s), raised |-> FALSE]
    ELSE [s |-> s, raised |-> FALSE]

(* ---- _grab_frame ------------------------------------------------------- *)
(* the classification of the bulk read: only the timeout is looked at, the *)
(* number of bytes self.device.read returns is dropped                     *)
ReadResult(readOut, readLen) ==
    CASE readOut = "timeout" -> SKIP
      [] readOut = "error"   -> RAISED
      [] OTHER               -> OK

(* variant of GrabFrame: the test "result < 0" left out, the bulk read is  *)
(* made after a negative result of the vendor command                      *)
GrabFrameReadsAfterNeg(d, armOut, readOut, readLen) ==
    IF d = None
    THEN [result |-> ERROR, armIssued |-> FALSE, readIssued |-> FALSE]
    ELSE CASE armOut = "timeout" ->
                [result |-> SKIP, armIssued |-> TRUE, readIssued |-> FALSE]
           [] armOut = "error" ->
                [result |-> RAISED, armIssued |-> TRUE, readIssued |-> FALSE]
           [] OTHER ->
                [result |-> ReadResult(readOut, readLen),
                 armIssued |-> TRUE, readIssued |-> TRUE]

(* _grab_frame on device handle d.  armIssued/readIssued: the control and  *)
(* the bulk transfer were handed to the USB library.                       *)
GrabFrame(d, armOut, readOut, readLen) ==
    IF d = None
    THEN [result |-> ERROR, armIssued |-> FALSE, readIssued |-> FALSE]
    ELSE CASE armOut = "timeout" ->
                [result |-> SKIP, armIssued |-> TRUE, readIssued |-> FALSE]
           [] armOut = "error" ->
                [result |-> RAISED, armIssued |-> TRUE, readIssued |-> FALSE]
           [] armOut = "neg" ->
                [result |-> ERROR, armIssued |-> TRUE, readIssued |-> FALSE]
           [] OTHER ->
                [result |-> ReadResult(readOut, readLen),
                 armIssued |-> TRUE, readIssued |-> TRUE]

(* ---- _capture_and_show_frames ----------------------------------------- *)
(* variant of CountFrame: a skipped attempt is counted as well *)
CountFrameSkipToo(fc, result) == IF result \in {OK, SKIP} THEN fc + 1 ELSE fc

(* self.frame_count after an attempt with the given result *)
CountFrame(fc, result) == IF result = OK THEN fc + 1 ELSE fc

(* variant of BranchCloses: SKIP tears the session down like ERROR *)
BranchClosesOnSkip(result) == IF result \in {ERROR, SKIP} THEN 1 ELSE 0

(* the number of close_capture calls of the branch taken for a result *)
BranchCloses(result) == IF result = ERROR THEN 1 ELSE 0

(* _capture_and_show_frames on session s with frame counter fc.  elapsed:  *)
(* _calculate_fps finds the reporting cadence elapsed.  raised: a USBError *)
(* leaves the function (from _grab_frame or from close_capture).           *)
CaptureAndShow(s, fc, armOut, readOut, readLen, relOut, elapsed) ==
    LET g == GrabFrame(s.device, armOut, readOut, readLen)
        c == CloseCapture(s, relOut)
        closing == BranchCloses(g.result) > 0
    IN  [s          |-> IF closing THEN c.s ELSE s,
         fc         |-> CountFrame(fc, g.result),
         result     |-> g.result,
         armIssued  |-> g.armIssued,
         readIssued |-> g.readIssued,
         forwarded  |-> g.result = OK,
         reported   |-> g.result = OK /\ elapsed,
         closes     |-> BranchCloses(g.result),
         raised     |-> g.result = RAISED \/ (closing /\ c.raised)]

(* ---- the transfer buffer and its two slices ---------------------------- *)
(* buf[lo:hi] on a buffer of n bytes, 0 <= lo, hi: the index range         *)
(* <<start, stop>> of the bytes the slice holds (Python clamps both ends   *)
(* to n, and a stop before the start gives the empty slice)                *)
Slice(n, lo, hi) ==
    LET start == IF lo < n THEN lo ELSE n
        stop  == IF hi < n THEN hi ELSE n
    IN  <<start, IF stop < start THEN start ELSE stop>>

(* variant of Decode: the audio slice runs to the end of the buffer *)
DecodeWithPadding(n, a) ==
    [image |-> Slice(n, 0, IMAGE_SIZE),
     audio |-> Slice(n, IMAGE_SIZE, n)]

(* lines 354-359: frame_buf[:IMAGE_SIZE] and frame_buf[IMAGE_SIZE:         *)
(* FRAME_SIZE] of a buffer of n bytes, FRAME_SIZE being IMAGE_SIZE + a     *)
Decode(n, a) ==
    [image |-> Slice(n, 0, IMAGE_SIZE),
     audio |-> Slice(n, IMAGE_SIZE, IMAGE_SIZE + a)]

(* self.transferred as __init__ allocates it for a bytes of audio *)
Allocated(a) ==
    [aux |-> a, size |-> TransferSize(IMAGE_SIZE + a), decoded |-> FALSE,
     image |-> <<0, 0>>, audio |-> <<0, 0>>]

(* the OK branch slices the buffer for the two sinks *)
DecodeFrame ==
    /\ ~transferred.decoded
    /\ LET v == Decode(transferred.size, transferred.aux)
       IN  transferred' = [transferred EXCEPT !.decoded = TRUE,
                                              !.image = v.image,
                                              !.audio = v.audio]
    /\ UNCHANGED <<loopVars, frame_count, keyVars, timer>>

(* the next frame arrives in the same buffer *)
ReuseBuffer ==
    /\ transferred.decoded
    /\ transferred' = Allocated(transferred.aux)
    /\ UNCHANGED <<loopVars, frame_count, keyVars, timer>>

(* ---- display geometry -------------------------------------------------- *)
(* lines 159-172: the fields __init__ sets *)
InitGeometry ==
    [is_nds_crop    |-> FALSE,
     display_scale  |-> SCALE_1,
     display_width  |-> N3DS_DISPLAY1_WIDTH,
     display_height |-> N3DS_DISPLAY_HEIGHT * 2,
     display1_area  |-> <<0, 0, Scaled(N3DS_DISPLAY1_WIDTH, SCALE_1),
                          Scaled(N3DS_DISPLAY_HEIGHT, SCALE_1)>>,
     display2_area  |-> <<Scaled(N3DS_DISPLAY1_WIDTH, SCALE_1), 0,
                          Scaled(N3DS_DISPLAY2_WIDTH, SCALE_1),
                          Scaled(N3DS_DISPLAY_HEIGHT, SCALE_1)>>,
     display2_dest  |-> <<Scaled(DISPLAY2_X, SCALE_1),
                          Scaled(N3DS_DISPLAY_HEIGHT, SCALE_1)>>,
     surface_size   |-> <<Scaled(FRAME_HEIGHT, SCALE_1),
                          Scaled(FRAME_WIDTH, SCALE_1)>>]

(* variant of ResizeDisplay: the second panel of the uncropped mode starts *)
(* at N3DS_DISPLAY2_WIDTH instead of N3DS_DISPLAY1_WIDTH                   *)
ResizeDisplayWrongOrigin(crop, s) ==
    [is_nds_crop    |-> crop,
     display_scale  |-> s,
     display_width  |-> IF crop THEN Scaled(NDS_DISPLAY_WIDTH, s)
                        ELSE Scaled(N3DS_DISPLAY1_WIDTH, s),
     display_height |-> IF crop THEN Scaled(NDS_DISPLAY_HEIGHT * 2, s)
                        ELSE Scaled(N3DS_DISPLAY_HEIGHT * 2, s),
     display1_area  |->
        IF crop
        THEN <<Scaled((N3DS_DISPLAY1_WIDTH - NDS_DISPLAY_WIDTH) \div 2, s),
               Scaled(N3DS_DISPLAY_HEIGHT - NDS_DISPLAY_HEIGHT, s),
               Scaled(NDS_DISPLAY_WIDTH, s), Scaled(NDS_DISPLAY_HEIGHT, s)>>
        ELSE <<0, 0, Scaled(N3DS_DISPLAY1_WIDTH, s),
               Scaled(N3DS_DISPLAY_HEIGHT, s)>>,
     display2_area  |->
        IF crop
        THEN <<Scaled(N3DS_DISPLAY1_WIDTH
                      + (N3DS_DISPLAY2_WIDTH - NDS_DISPLAY_WIDTH) \div 2, s),
               0, Scaled(NDS_DISPLAY_WIDTH, s), Scaled(NDS_DISPLAY_HEIGHT, s)>>
        ELSE <<Scaled(N3DS_DISPLAY2_WIDTH, s), 0,
               Scaled(N3DS_DISPLAY2_WIDTH, s), Scaled(N3DS_DISPLAY_HEIGHT, s)>>,
     display2_dest  |->
        IF crop THEN <<0, Scaled(NDS_DISPLAY_HEIGHT, s)>>
        ELSE <<Scaled(DISPLAY2_X, s), Scaled(N3DS_DISPLAY_HEIGHT, s)>>,
     surface_size   |-> <<Scaled(FRAME_HEIGHT, s), Scaled(FRAME_WIDTH, s)>>]

(* _resize_display(new_scale) with self.is_nds_crop = crop: the fields it  *)
(* leaves.  An area is <<x, y, width, height>>.                            *)
ResizeDisplay(crop, s) ==
    [is_nds_crop    |-> crop,
     display_scale  |-> s,
     display_width  |-> IF crop THEN Scaled(NDS_DISPLAY_WIDTH, s)
                        ELSE Scaled(N3DS_DISPLAY1_WIDTH, s),
     display_height |-> IF crop THEN Scaled(NDS_DISPLAY_HEIGHT * 2, s)
                        ELSE Scaled(N3DS_DISPLAY_HEIGHT * 2, s),
     display1_area  |->
        IF crop
        THEN <<Scaled((N3DS_DISPLAY1_WIDTH - NDS_DISPLAY_WIDTH) \div 2, s),
               Scaled(N3DS_DISPLAY_HEIGHT - NDS_DISPLAY_HEIGHT, s),
               Scaled(NDS_DISPLAY_WIDTH, s), Scaled(NDS_DISPLAY_HEIGHT, s)>>
        ELSE <<0, 0, Scaled(N3DS_DISPLAY1_WIDTH, s),
               Scaled(N3DS_DISPLAY_HEIGHT, s)>>,
     display2_area  |->
        IF crop
        THEN <<Scaled(N3DS_DISPLAY1_WIDTH
                      + (N3DS_DISPLAY2_WIDTH - NDS_DISPLAY_WIDTH) \div 2, s),
               0, Scaled(NDS_DISPLAY_WIDTH, s), Scaled(NDS_DISPLAY_HEIGHT, s)>>
        ELSE <<Scaled(N3DS_DISPLAY1_WIDTH, s), 0,
               Scaled(N3DS_DISPLAY2_WIDTH, s), Scaled(N3DS_DISPLAY_HEIGHT, s)>>,
     display2_dest  |->
        IF crop THEN <<0, Scaled(NDS_DISPLAY_HEIGHT, s)>>
        ELSE <<Scaled(DISPLAY2_X, s), Scaled(N3DS_DISPLAY_HEIGHT, s)>>,
     surface_size   |-> <<Scaled(FRAME_HEIGHT, s), Scaled(FRAME_WIDTH, s)>>]

(* ---- N3DSCaptureAudio -------------------------------------------------- *)
(* lines 79-88; channel_volume is the volume given to channel.set_volume,  *)
(* in hundredths                                                           *)
InitAudio == [volume |-> 50, is_muted |-> FALSE, channel_volume |-> 50]

(* set_volume *)
SetVolume(a, v) ==
    IF 0 <= v /\ v <= VOLUME_MAX
    THEN [a EXCEPT !.volume = v, !.channel_volume = v]
    ELSE a

(* increase_volume *)
IncreaseVolume(a) == SetVolume(a, a.volume + VOLUME_STEP)

(* decrease_volume *)
DecreaseVolume(a) == SetVolume(a, a.volume - VOLUME_STEP)

(* mute_or_unmute *)
MuteOrUnmute(a) ==
    LET m == [a EXCEPT !.is_muted = ~a.is_muted]
    IN  IF m.is_muted
        THEN [m EXCEPT !.channel_volume = 0]
        ELSE SetVolume(m, m.volume)

(* ---- _calculate_fps ---------------------------------------------------- *)
(* a quotient is kept as numerator and denominator *)
(* variant of Fps: frame_count / elapsed_time without the test of the      *)
(* elapsed time                                                            *)
FpsUnguarded(fc, elapsed_time) ==
    [num |-> fc * TICKS_PER_SECOND, den |-> elapsed_time]

(* fps = self.frame_count / elapsed_time if elapsed_time > 0 else 0 *)
Fps(fc, elapsed_time) ==
    IF elapsed_time > 0
    THEN [num |-> fc * TICKS_PER_SECOND, den |-> elapsed_time]
    ELSE [num |-> 0, den |-> 1]

(* the clock at construction time 0 (line 149), with process_frames        *)
(* starting at tick start (line 372)                                       *)
Started(start) ==
    [now |-> start, start_time |-> start, last_fps_update_time |-> 0,
     fps |-> [num |-> 0, den |-> 1],
     reported |-> FALSE, frames |-> 0, elapsed_time |-> 0]

(* _calculate_fps with frame counter fc; reported, frames and elapsed_time *)
(* record the last title computed                                          *)
CalculateFps(tm, fc) ==
    IF tm.now - tm.last_fps_update_time >= FPS_UPDATE_TICKS
    THEN [tm EXCEPT !.fps = Fps(fc, tm.now - tm.start_time),
                    !.last_fps_update_time = tm.now,
                    !.reported = TRUE,
                    !.frames = fc,
                    !.elapsed_time = tm.now - tm.start_time]
    ELSE tm

(* the clock advances by one tick *)
TimePasses ==
    /\ timer.now < MaxTicks
    /\ timer' = [timer EXCEPT !.now = timer.now + 1]
    /\ UNCHANGED <<loopVars, frame_count, transferred, keyVars>>

(* the OK branch of _capture_and_show_frames (lines 361-362) *)
OkFrame ==
    /\ frame_count < MaxFpsFrames
    /\ timer' = CalculateFps(timer, frame_count)
    /\ frame_count' = frame_count + 1
    /\ UNCHANGED <<loopVars, transferred, keyVars>>

(* ---- the KEYDOWN branches of process_frames (lines 393-408) ------------ *)
Key1 ==
    /\ geometry' = ResizeDisplay(geometry.is_nds_crop, SCALE_1)
    /\ last_key' = "1"
    /\ UNCHANGED <<loopVars, frame_count, transferred, timer,
                   n3ds_capture_audio>>

Key2 ==
    /\ geometry' = ResizeDisplay(geometry.is_nds_crop, SCALE_1_5)
    /\ last_key' = "2"
    /\ UNCHANGED <<loopVars, frame_count, transferred, timer,
                   n3ds_capture_audio>>

Key3 ==
    /\ geometry' = ResizeDisplay(geometry.is_nds_crop, SCALE_2)
    /\ last_key' = "3"
    /\ UNCHANGED <<loopVars, frame_count, transferred, timer,
                   n3ds_capture_audio>>

(* variant of KeyC: the crop flag is toggled and the derived fields are  *)
(* left as they were                                                       *)
KeyCNoResize ==
    /\ geometry' = [geometry EXCEPT !.is_nds_crop = ~geometry.is_nds_crop]
    /\ last_key' = "c"
    /\ UNCHANGED <<loopVars, frame_count, transferred, timer,
                   n3ds_capture_audio>>

KeyC ==
    /\ geometry' = ResizeDisplay(~geometry.is_nds_crop,
                                 geometry.display_scale)
    /\ last_key' = "c"
    /\ UNCHANGED <<loopVars, frame_count, transferred, timer,
                   n3ds_capture_audio>>

KeyPlus ==
    /\ n3ds_capture_audio' = IncreaseVolume(n3ds_capture_audio)
    /\ last_key' = "+"
    /\ UNCHANGED <<loopVars, frame_count, transferred, timer, geometry>>

KeyMinus ==
    /\ n3ds_capture_audio' = DecreaseVolume(n3ds_capture_audio)
    /\ last_key' = "-"
    /\ UNCHANGED <<loopVars, frame_count, transferred, timer, geometry>>

KeyM ==
    /\ n3ds_capture_audio' = MuteOrUnmute(n3ds_capture_audio)
    /\ last_key' = "m"
    /\ UNCHANGED <<loopVars, frame_count, transferred, timer, geometry>>

(* ---- process_frames ---------------------------------------------------- *)
Session == [device |-> device, interface |-> interface, usb |-> usb]

(* the answers the environment can give: only success once it is healthy  *)
In(healthySet, anySet) == IF healthy THEN healthySet ELSE anySet

(* the answers to a call that is made only when the calls before it went   *)
(* well; a call that is not made has no answer ("ok" stands for none)      *)
Asked(made, outcomes) == IF made THEN outcomes ELSE {"ok"}

(* the device has an interface whose bInterfaceNumber is CAPTURE_INTERFACE *)
HasCaptureInterface(desc) ==
    \E c \in 1..Len(desc) : \E i \in 1..Len(desc[c]) :
        desc[c][i] = CAPTURE_INTERFACE

(* lines 377-380: no handle is held, device_init is called and its result  *)
(* dropped                                                                 *)
Reconnect ==
    /\ pc = "loop"
    /\ device = None
    /\ \E findOut \in In({"found"}, FindOutcomes) :
       \E cfgOut \in In({"ok"}, Asked(findOut = "found", CfgOutcomes)) :
       \E desc \in In({HealthyDescriptor},
                      IF cfgOut = "ok" /\ findOut = "found"
                      THEN Descriptors ELSE {HealthyDescriptor}) :
       \E claimOut \in In({"ok"}, Asked(/\ findOut = "found"
                                        /\ cfgOut = "ok"
                                        /\ HasCaptureInterface(desc),
                                        ClaimOutcomes)) :
       \E armOut \in In({"ok"}, Asked(/\ findOut = "found"
                                      /\ cfgOut = "ok"
                                      /\ HasCaptureInterface(desc)
                                      /\ claimOut = "ok",
                                      ArmOutcomes)) :
         LET r == DeviceInit(Session, handles, findOut, desc, cfgOut,
                             claimOut, armOut)
         IN  /\ findOut = "found" => handles < MaxOpens
             /\ device' = r.s.device
             /\ interface' = r.s.interface
             /\ usb' = r.s.usb
             /\ handles' = r.handles
             /\ initOk' = r.ret
             /\ att' = [NoAtt EXCEPT !.prev = att.result, !.opened = TRUE,
                                     !.openRet = r.ret,
                                     !.openIn = <<findOut, desc, cfgOut,
                                                  claimOut, armOut>>]
    /\ pc' = "capture"
    /\ UNCHANGED <<frame_count, okCount, healthy>>
    /\ UNCHANGED aside

(* line 377 when a handle is held: no device_init *)
StillConnected ==
    /\ pc = "loop"
    /\ device # None
    /\ att' = [NoAtt EXCEPT !.prev = att.result]
    /\ pc' = "capture"
    /\ UNCHANGED <<device, interface, usb, handles, initOk, frame_count,
                   okCount, healthy>>
    /\ UNCHANGED aside

(* lines 382-387: one attempt, and the handler of usb.core.USBError, which *)
(* calls close_capture; a USBError of that call leaves process_frames.     *)
(* The counter is counted up to MaxFrames: with saturate it then stays     *)
(* there (the code reads it only for the title), without it the attempt    *)
(* that would exceed MaxFrames is not taken.                               *)
CaptureStep(saturate) ==
    /\ pc = "capture"
    /\ \E armOut \in In({"ok"}, ArmOutcomes) :
       \E readOut \in In({"ok"}, Asked(armOut = "ok", ReadOutcomes)) :
       \E readLen \in In({FRAME_SIZE},
                         IF armOut = "ok" /\ readOut = "ok"
                         THEN ReadLengths ELSE {FRAME_SIZE}) :
       \E rel1 \in In({"ok"}, RelOutcomes),
          rel2 \in In({"ok"}, RelOutcomes),
          elapsed \in BOOLEAN :
         LET r == CaptureAndShow(Session, frame_count, armOut, readOut,
                                 readLen, rel1, elapsed)
             h == CloseCapture(r.s, rel2)
             s2 == IF r.raised THEN h.s ELSE r.s
             escaped == r.raised /\ h.raised
             counted == r.fc <= MaxFrames
         IN  /\ saturate \/ counted
             /\ device' = s2.device
             /\ interface' = s2.interface
             /\ usb' = s2.usb
             /\ frame_count' = IF counted THEN r.fc ELSE frame_count
             /\ okCount' = IF counted /\ r.result = OK
                           THEN okCount + 1 ELSE okCount
             /\ initOk' = (initOk /\ s2.device # None)
             /\ att' = [att EXCEPT
                          !.openIn = <<>>,
                          !.streaming = initOk,
                          !.heldBefore = (device # None),
                          !.result = r.result,
                          !.armIssued = r.armIssued,
                          !.armOut = IF r.armIssued THEN armOut ELSE "ok",
                          !.readIssued = r.readIssued,
                          !.readOut = IF r.readIssued THEN readOut ELSE "ok",
                          !.readLen = IF r.readIssued /\ readOut = "ok"
                                      THEN readLen ELSE 0,
                          !.forwarded = r.forwarded,
                          !.reported = r.reported,
                          !.closes = r.closes + IF r.raised THEN 1 ELSE 0]
             /\ pc' = IF escaped THEN "raised" ELSE "events"
    /\ UNCHANGED <<handles, healthy>>
    /\ UNCHANGED aside

Capture == CaptureStep(FALSE)

(* the same step in a loop that runs for ever *)
CaptureOn == CaptureStep(TRUE)

(* variant of Events: "running = False" left out of the QUIT branch *)
EventsKeepsRunning ==
    /\ pc = "events"
    /\ \E quit \in BOOLEAN, relOut \in In({"ok"}, RelOutcomes) :
         LET c == CloseCapture(Session, relOut)
         IN  IF quit
             THEN /\ device' = c.s.device
                  /\ interface' = c.s.interface
                  /\ usb' = c.s.usb
                  /\ initOk' = (initOk /\ c.s.device # None)
                  /\ att' = [att EXCEPT !.quitSeen = TRUE]
                  /\ pc' = IF c.raised THEN "raised" ELSE "loop"
             ELSE /\ pc' = "loop"
                  /\ UNCHANGED <<device, interface, usb, initOk, att>>
    /\ UNCHANGED <<frame_count, okCount, handles, healthy>>
    /\ UNCHANGED aside

(* lines 389-410 for the events that end the loop: the QUIT event calls    *)
(* close_capture and clears running; without one the loop goes on          *)
Events ==
    /\ pc = "events"
    /\ \E quit \in BOOLEAN, relOut \in In({"ok"}, RelOutcomes) :
         LET c == CloseCapture(Session, relOut)
         IN  IF quit
             THEN /\ device' = c.s.device
                  /\ interface' = c.s.interface
                  /\ usb' = c.s.usb
                  /\ initOk' = (initOk /\ c.s.device # None)
                  /\ att' = [att EXCEPT !.quitSeen = TRUE]
                  /\ pc' = IF c.raised THEN "raised" ELSE "exited"
             ELSE /\ pc' = "loop"
                  /\ UNCHANGED <<device, interface, usb, initOk, att>>
    /\ UNCHANGED <<frame_count, okCount, handles, healthy>>
    /\ UNCHANGED aside

(* ---- run --------------------------------------------------------------- *)
(* lines 465-470: the finally clause calls close_capture once more, after  *)
(* the loop ended or while an exception passes through                     *)
Finally ==
    /\ pc \in {"exited", "raised"}
    /\ \E relOut \in In({"ok"}, RelOutcomes) :
         LET c == CloseCapture(Session, relOut)
         IN  /\ device' = c.s.device
             /\ interface' = c.s.interface
             /\ usb' = c.s.usb
             /\ initOk' = (initOk /\ c.s.device # None)
             /\ pc' = IF pc = "raised" \/ c.raised THEN "failed" ELSE "done"
    /\ UNCHANGED <<frame_count, okCount, handles, att, healthy>>
    /\ UNCHANGED aside

(* ---- the environment --------------------------------------------------- *)
(* the device is plugged in and answers every request from now on *)
DeviceRecovers ==
    /\ ~healthy
    /\ healthy' = TRUE
    /\ UNCHANGED <<device, interface, frame_count, pc, handles, usb, initOk,
                   att, okCount>>
    /\ UNCHANGED aside

(* the session fields after __init__, at the start of process_frames *)
LoopInit ==
    /\ device = None
    /\ interface = NoIface
    /\ pc = "loop"
    /\ handles = 0
    /\ usb = NoUsb
    /\ initOk = FALSE
    /\ att = NoAtt
    /\ okCount = 0
    /\ healthy = FALSE

KeyInit ==
    /\ geometry = InitGeometry
    /\ n3ds_capture_audio = InitAudio
    /\ last_key = "none"

Init ==
    /\ LoopInit
    /\ frame_count = 0
    /\ transferred = Allocated(AUDIO_SAMPLE_SIZE)
    /\ KeyInit
    /\ timer = Started(0)

Next ==
    \/ Reconnect
    \/ StillConnected
    \/ Capture
    \/ Events
    \/ Finally
    \/ DeviceRecovers

Spec == Init /\ [][Next]_vars

LiveNext ==
    \/ Reconnect
    \/ StillConnected
    \/ CaptureOn
    \/ Events
    \/ Finally
    \/ DeviceRecovers

(* the buffer layout for every auxiliary byte count *)
SizeInit ==
    /\ LoopInit
    /\ frame_count = 0
    /\ \E a \in 0..MaxAux : transferred = Allocated(a)
    /\ KeyInit
    /\ timer = Started(0)

SizeNext ==
    \/ DecodeFrame
    \/ ReuseBuffer

SizeSpec == SizeInit /\ [][SizeNext]_vars

(* the frame counter and the clock, for every delay between construction  *)
(* and process_frames                                                      *)
FpsInit ==
    /\ LoopInit
    /\ frame_count = 0
    /\ transferred = Allocated(AUDIO_SAMPLE_SIZE)
    /\ KeyInit
    /\ \E start \in 0..MaxStart : timer = Started(start)

FpsNext ==
    \/ TimePasses
    \/ OkFrame

FpsSpec == FpsInit /\ [][FpsNext]_vars

(* the key events on the window *)
KeyNext ==
    \/ Key1
    \/ Key2
    \/ Key3
    \/ KeyC
    \/ KeyPlus
    \/ KeyMinus
    \/ KeyM

KeySpec == Init /\ [][KeyNext]_vars

(* the loop is one thread that keeps running: the step it stands at is     *)
(* eventually taken                                                        *)
LiveSpec ==
    /\ Init
    /\ [][LiveNext]_vars
    /\ WF_vars(Reconnect \/ StillConnected \/ CaptureOn \/ Events)

TypeOK ==
    /\ device \in 0..MaxOpens
    /\ interface.dev \in 0..MaxOpens
    /\ frame_count \in 0..MaxFrames
    /\ pc \in {"loop", "capture", "events", "exited", "raised", "done", "failed"}
    /\ att.result \in CaptureResult \cup {RAISED, NoResult}

(* ======================================================================= *)
(* The claims                                                              *)
(* ======================================================================= *)
Running == pc \in {"loop", "capture", "events"}
Stopped == pc \in {"exited", "raised", "done", "failed"}
(* the session is Streaming: a handle is held that device_init opened      *)
(* through discovery, configuration, claim and the initial arm command     *)
Streaming == device # None /\ initOk

(* C1: an attempt, made after a successful open, whose arm command         *)
(* succeeded and whose bulk read returned fewer than FRAME_SIZE bytes has  *)
(* the outcome Skip, and nothing of the buffer is forwarded to the sinks.  *)
C1_ShortReadIsSkip ==
    (/\ att.streaming
     /\ att.readIssued
     /\ att.readOut = "ok"
     /\ att.readLen < FRAME_SIZE)
        => (att.result = SKIP /\ ~att.forwarded)

(* C2: the success frame counter equals the number of Ok outcomes; a step  *)
(* changes it only by adding 1, and only a step that is an attempt with    *)
(* outcome Ok; Skip, Error, close, reconnect and report leave it alone.    *)
C2_FrameCounter ==
    /\ [](frame_count = okCount)
    /\ [][\/ frame_count' = frame_count
          \/ /\ pc = "capture"
             /\ att'.result = OK
             /\ frame_count' = frame_count + 1]_vars

C2_Witness ==
    /\ frame_count = 2
    /\ att.prev = SKIP
    /\ att.result = ERROR
    /\ att.closes = 1
    /\ pc = "loop"

(* C3: every attempt ends with exactly one of Ok, Skip, Error: a timeout   *)
(* of the arm command gives Skip, any other transport failure of it Error. *)
C3_OneOutcomePerAttempt ==
    att.result # NoResult =>
        /\ att.result \in CaptureResult
        /\ (att.armIssued /\ att.armOut = "timeout") => att.result = SKIP
        /\ (att.armIssued /\ att.armOut = "error") => att.result = ERROR

(* C4: transfers of an attempt are issued only while the session is        *)
(* Streaming; an iteration whose device_init failed issues none, holds no  *)
(* handle and no interface afterwards.                                     *)
C4_AttemptOnlyWhileStreaming ==
    /\ att.armIssued => att.streaming
    /\ (att.opened /\ ~att.openRet) => ~att.armIssued
    /\ (att.opened /\ ~att.openRet /\ pc = "capture")
           => (device = None /\ interface = NoIface)

(* C5: an attempt with outcome Error calls close_capture in its iteration, *)
(* neither handle nor interface is held when the iteration has ended, and  *)
(* the iteration after it calls device_init before its attempt.            *)
C5_ErrorClosesAndReopens ==
    /\ att.result = ERROR => att.closes >= 1
    /\ (att.result = ERROR /\ pc \in {"events", "loop"})
           => (device = None /\ interface = NoIface)
    /\ att.prev = ERROR => att.opened

C5_Witness ==
    /\ att.prev = ERROR
    /\ att.opened
    /\ att.openRet
    /\ att.armIssued
    /\ usb.releases = 0

(* C6: per handle the interface is released at most once per successful    *)
(* claim and the handle disposed at most once, and an Error outcome makes  *)
(* exactly one call of close_capture.                                      *)
C6_CloseIdempotent ==
    /\ usb.releases <= usb.claims
    /\ usb.disposes <= 1
    /\ att.result = ERROR => att.closes = 1

(* C7: an attempt with outcome Skip changes nothing of the session: handle *)
(* and interface stay as they were, close_capture is not called, nothing   *)
(* is forwarded or counted, and the next iteration does not reopen.        *)
C7_SkipChangesNothing ==
    /\ [](att.result = SKIP =>
             /\ att.closes = 0
             /\ ~att.forwarded
             /\ pc \in {"events", "loop"} => device # None)
    /\ [](att.prev = SKIP => ~att.opened)
    /\ [][(pc = "capture" /\ att'.result = SKIP) =>
             /\ UNCHANGED <<device, interface, usb, initOk, frame_count>>
             /\ pc' = "events"]_vars

C7_Witness ==
    /\ att.prev = SKIP
    /\ att.result = SKIP
    /\ att.readIssued
    /\ att.readOut = "timeout"
    /\ att.streaming
    /\ interface # NoIface
    /\ pc = "loop"

(* C8: no outcome of a USB operation lets an exception leave the loop, and *)
(* the loop ends only after a quit request was seen.                       *)
C8_LoopEndsOnlyOnQuit ==
    /\ pc \notin {"raised", "failed"}
    /\ pc \in {"exited", "done"} => att.quitSeen

(* C9: once the device is present and every USB operation succeeds, the    *)
(* running loop gets to a Streaming session with an Ok frame (unless the   *)
(* user ends the loop).                                                    *)
C9_Reconnects ==
    (healthy /\ Running /\ handles < MaxOpens)
        ~> ((Streaming /\ att.result = OK) \/ Stopped)

(* C10: device_init returns True exactly when the device was found, the    *)
(* configuration set, an interface with the target number present, the     *)
(* interface claimed and the initial arm command completed; it then holds  *)
(* the handle and that handle's claimed interface.                         *)
AllStepsDone(in) ==
    /\ in[1] = "found"
    /\ in[3] = "ok"
    /\ HasCaptureInterface(in[2])
    /\ in[4] = "ok"
    /\ in[5] \notin {"timeout", "error"}

C15_ReadOnlyAfterArm ==
    /\ att.readIssued => (att.armIssued /\ att.armOut = "ok")
    /\ (att.armIssued /\ att.armOut \in {"timeout", "error", "neg"})
           => ~att.readIssued

C15_Witness ==
    /\ att.prev = SKIP
    /\ att.readIssued
    /\ att.armOut = "ok"
    /\ att.result = OK
    /\ att.streaming

(* C16: the interface device_init claims is the first one, in scan order   *)
(* over the configurations and their interfaces, whose number is the       *)
(* target number; without a match device_init fails.                       *)
FirstMatch(desc) ==
    LET matches == UNION {{<<c, i>> : i \in {j \in 1..Len(desc[c]) :
                                          desc[c][j] = CAPTURE_INTERFACE}} :
                          c \in 1..Len(desc)}
    IN  CHOOSE m \in matches :
            \A n \in matches :
                m[1] < n[1] \/ (m[1] = n[1] /\ m[2] <= n[2])

C16_FirstMatchWins ==
    (/\ pc = "capture"
     /\ att.opened
     /\ att.openIn[1] = "found"
     /\ att.openIn[3] = "ok")
        => IF HasCaptureInterface(att.openIn[2])
           THEN usb.claims = 1 =>
                  <<interface.cfg, interface.idx>> = FirstMatch(att.openIn[2])
           ELSE ~att.openRet /\ usb.claims = 0

(* C17: a quit request is seen only in the event phase, after the attempt  *)
(* of the iteration; the step that sees it calls close_capture and ends    *)
(* the loop, no attempt is made afterwards, and when run() is over neither *)
(* handle nor interface is held.                                           *)
C17_QuitEndsLoop ==
    /\ [](att.quitSeen => Stopped)
    /\ []((att.quitSeen /\ pc \in {"done", "failed"})
             => (device = None /\ interface = NoIface))
    /\ [][(att'.quitSeen /\ ~att.quitSeen) =>
             /\ pc = "events"
             /\ att.result # NoResult
             /\ pc' = "exited" => (device' = None /\ interface' = NoIface)]_vars
    /\ [][att.quitSeen => att' = att]_vars

C17_Witness ==
    /\ att.quitSeen
    /\ pc = "done"
    /\ att.streaming
    /\ att.result = OK
    /\ usb.releases = 1
    /\ usb.disposes = 1

(* C18: an interface is held only together with the handle it belongs to,  *)
(* and every device_init the loop starts finds both fields empty.          *)
C18_InterfaceNeedsHandle ==
    /\ [](interface # NoIface =>
             (device # None /\ interface.dev = device))
    /\ [][(pc = "loop" /\ pc' = "capture" /\ att'.opened) =>
             (device = None /\ interface = NoIface)]_vars

C18_Witness ==
    /\ pc = "capture"
    /\ att.opened
    /\ att.prev = RAISED
    /\ handles = 2
    /\ interface.dev = 2
    /\ device = 2

(* C11: for every auxiliary byte count the transfer buffer size is a       *)
(* multiple of 512, is at least the frame size and exceeds it by less than *)
(* 512.                                                                    *)
C11_TransferSizeRounded ==
    LET frameByteCount == IMAGE_SIZE + transferred.aux
    IN  /\ transferred.size % 512 = 0
        /\ transferred.size >= frameByteCount
        /\ transferred.size - frameByteCount < 512

C11_Witness ==
    /\ transferred.aux = AUDIO_SAMPLE_SIZE
    /\ transferred.size = 520704
    /\ transferred.size > FRAME_SIZE

(* C12: the image slice and the audio slice of an Ok frame are disjoint,   *)
(* their lengths sum to the frame size, the image slice followed by the    *)
(* audio slice is the first frame-size bytes of the buffer, and no byte    *)
(* of the padding is in either.                                            *)
C12_SlicesPartitionFrame ==
    transferred.decoded =>
        LET frameByteCount == IMAGE_SIZE + transferred.aux
            image == transferred.image
            audio == transferred.audio
        IN  /\ image[1] = 0
            /\ image[2] = audio[1]
            /\ audio[2] = frameByteCount
            /\ (image[2] - image[1]) + (audio[2] - audio[1]) = frameByteCount
            /\ image[2] - image[1] = IMAGE_SIZE
            /\ audio[2] <= transferred.size

C12_Witness ==
    /\ transferred.decoded
    /\ transferred.aux = AUDIO_SAMPLE_SIZE
    /\ transferred.image = <<0, 518400>>
    /\ transferred.audio = <<518400, 520588>>
    /\ transferred.size > 520588


(* ---- C13 --------------------------------------------------------------- *)
(* C13: at scale 1.0 with the crop off the first panel is the source       *)
(* rectangle at (0, 0) of 400 x 240, the second one the rectangle at       *)
(* (400, 0) of 320 x 240, and the two widths add up to the rotated frame's *)
(* width of 720.                                                           *)
C13_DefaultPanels ==
    (geometry.display_scale = SCALE_1 /\ ~geometry.is_nds_crop) =>
        /\ geometry.display1_area = <<0, 0, 400, 240>>
        /\ geometry.display2_area = <<400, 0, 320, 240>>
        /\ geometry.display1_area[3] + geometry.display2_area[3] = 720
        /\ geometry.surface_size[1] = 720

C13_Witness ==
    /\ last_key = "c"
    /\ geometry.display_scale = SCALE_1
    /\ ~geometry.is_nds_crop
    /\ geometry.display2_area = <<400, 0, 320, 240>>

(* ---- C19 --------------------------------------------------------------- *)
Inside(area, size) ==
    /\ area[1] >= 0
    /\ area[2] >= 0
    /\ area[3] > 0
    /\ area[4] > 0
    /\ area[1] + area[3] <= size[1]
    /\ area[2] + area[4] <= size[2]

Disjoint(a, b) ==
    \/ a[1] + a[3] <= b[1]
    \/ b[1] + b[3] <= a[1]
    \/ a[2] + a[4] <= b[2]
    \/ b[2] + b[4] <= a[2]

(* C19: after every scale or crop key the two source rectangles are those  *)
(* of the current scale and crop mode, lie inside the scaled rotated frame *)
(* of (720 * scale) x (240 * scale) without overlapping, and the window    *)
(* and the surface have the sizes derived from that scale and mode.        *)
C19_GeometryConsistent ==
    LET s    == geometry.display_scale
        crop == geometry.is_nds_crop
        w    == IF crop THEN (256 * s) \div 2 ELSE (400 * s) \div 2
        h    == IF crop THEN (192 * s) \div 2 ELSE (240 * s) \div 2
        w2   == IF crop THEN (256 * s) \div 2 ELSE (320 * s) \div 2
    IN  /\ s \in {SCALE_1, SCALE_1_5, SCALE_2}
        /\ geometry.surface_size = <<(720 * s) \div 2, (240 * s) \div 2>>
        /\ geometry.display1_area =
              IF crop THEN <<(72 * s) \div 2, (48 * s) \div 2, w, h>>
              ELSE <<0, 0, w, h>>
        /\ geometry.display2_area =
              IF crop THEN <<(432 * s) \div 2, 0, w2, h>>
              ELSE <<(400 * s) \div 2, 0, w2, h>>
        /\ Inside(geometry.display1_area, geometry.surface_size)
        /\ Inside(geometry.display2_area, geometry.surface_size)
        /\ Disjoint(geometry.display1_area, geometry.display2_area)
        /\ geometry.display_width = w
        /\ geometry.display_height = 2 * h
        /\ geometry.display2_dest[2] = h
        /\ geometry.display2_dest[1] + w2 <= geometry.display_width

C19_Witness ==
    /\ last_key = "3"
    /\ geometry.is_nds_crop
    /\ geometry.display_scale = SCALE_2
    /\ geometry.display1_area = <<144, 96, 512, 384>>
    /\ geometry.display2_area = <<864, 0, 512, 384>>
    /\ geometry.display_width = 512
    /\ geometry.display_height = 768

(* ---- C20 --------------------------------------------------------------- *)
(* C20: the volume stays within 0..100, and the volume applied to the      *)
(* channel is 0 while muted and the stored volume while not muted.         *)
C20_AudioControls ==
    /\ n3ds_capture_audio.volume \in 0..100
    /\ n3ds_capture_audio.is_muted => n3ds_capture_audio.channel_volume = 0
    /\ ~n3ds_capture_audio.is_muted =>
           n3ds_capture_audio.channel_volume = n3ds_capture_audio.volume


(* ---- C14 --------------------------------------------------------------- *)
(* C14: a title computed once the cadence has elapsed holds the frames     *)
(* counted so far divided by the time since the start of the session: no   *)
(* quotient has the denominator 0, 119 or 120 counted frames over 2.0      *)
(* seconds give a value within 59..61, and no counted frame gives 0.       *)
C14_FpsComputed ==
    timer.reported =>
        /\ timer.fps.den > 0
        /\ timer.elapsed_time > 0 =>
               /\ timer.fps.num = timer.frames * TICKS_PER_SECOND
               /\ timer.fps.den = timer.elapsed_time
        /\ timer.elapsed_time = 0 => timer.fps.num = 0
        /\ (/\ timer.frames \in {119, 120}
            /\ timer.elapsed_time = 2 * TICKS_PER_SECOND)
               => /\ 59 * timer.fps.den <= timer.fps.num
                  /\ timer.fps.num <= 61 * timer.fps.den
        /\ timer.frames = 0 => timer.fps.num = 0

C14_Witness ==
    /\ timer.reported
    /\ timer.frames = 120
    /\ timer.elapsed_time = 2 * TICKS_PER_SECOND
    /\ timer.fps = [num |-> 240, den |-> 4]
    /\ frame_count = 121

============================================================================
